---- MODULE Spec2Model ----
(***************************************************************************)
(* overleaf-sync: the two-way sync of olsync.py.  main() runs sync_func    *)
(* once or twice (remote -> local, then local -> remote); sync_func        *)
(* classifies every name of files_from, asks about every name of           *)
(* deleted_files, and then executes the plan group by group.               *)
(*                                                                         *)
(* File names and ignore patterns are sequences of characters.  File       *)
(* contents are opaque values, time stamps are integers.                   *)
(***************************************************************************)
EXTENDS Integers, Sequences, FiniteSets, TLC

\* ------------------------------------------------------------------ bounds
\* time stamps (mtime, lastUpdated) range over 0..MaxTime
MaxTime == 1

\* ------------------------------------------------------------ input sets
\* the file names of the modelled project, in directory-scan order
AllNames == << <<"a">>, <<"d", "/", "c">> >>
Names == {AllNames[k] : k \in 1..Len(AllNames)}
\* file contents: two distinct byte strings
Contents == {"x", "y"}
\* no file of that name (in the zip, in the remote project)
NoFile == "nofile"
\* no file of that name in the local directory
NoLocalFile == [exists |-> FALSE, content |-> NoFile, mtime |-> 0]
LocalFiles == {[exists |-> TRUE, content |-> c, mtime |-> t] :
                  c \in Contents, t \in 0..MaxTime}
\* the file at olignore_path: absent, or a list of fnmatch patterns (one per
\* line); a file that is there may be one that open() cannot read
NoOlignore == [exists |-> FALSE, readable |-> FALSE, lines |-> <<>>]
Olignore(lines) == [exists |-> TRUE, readable |-> TRUE, lines |-> lines]
Unreadable(lines) == [exists |-> TRUE, readable |-> FALSE, lines |-> lines]
OlignoreChoices ==
    {NoOlignore,
     Olignore(<< <<"a">>, <<"d">> >>),
     Olignore(<< <<"*", "c">> >>),
     Unreadable(<< <<"a">> >>)}
\* the instant at which this invocation writes files
Now == MaxTime

VARIABLES
    local,              \* flag -l/--local-only
    remote,             \* flag -r/--remote-only
    olignore,           \* the file at olignore_path
    fs,                 \* local directory: name -> NoLocalFile or a file
    zip_names,          \* zip_file.namelist() of the downloaded project
    zip_data,           \* zip_file.read(name), NoFile for names not in the zip
    project,            \* the live remote project: name -> NoFile or content
    lastUpdated,        \* project["lastUpdated"] as a time stamp
    pc,                 \* position in main / sync_func
    from_name,          \* sync_func argument from_name ("" outside sync_func)
    files_from,         \* sync_func argument
    deleted_files,      \* sync_func argument
    idx,                \* position of the running for-loop in its list
    newly_add_list, update_list, delete_list, restore_list,
    not_restored_list, not_sync_list, synced_list,
    trace,              \* every predicate call, prompt and capability call so far
    output,             \* the lines sync_func has written with click.echo
    error,              \* the ClickException raised by sync_func, or NoError
    invocation,         \* how many times the program has been started
    created,            \* per direction, the names the previous invocation
                        \* has created or updated on the destination
    acted,              \* the directions whose run of the previous invocation
                        \* has called a capability
    entry,              \* what both sides held when sync_func was entered
    prep,               \* the preparation steps main has taken, with outcomes
    request,            \* the OverleafClient method called and what it is given
    socket,             \* the SocketIO object of get_project_infos
    result              \* what the OverleafClient method has returned or raised

lists == <<newly_add_list, update_list, delete_list, restore_list,
           not_restored_list, not_sync_list, synced_list>>
args == <<from_name, files_from, deleted_files>>
flags == <<local, remote, olignore>>
snapshot == <<zip_names, zip_data, lastUpdated>>
history == <<invocation, created, acted, entry>>
client == <<request, socket, result>>
vars == <<flags, fs, snapshot, project, pc, args, idx, lists, trace, output, error,
          history, prep, client>>

NoError == [group |-> "", side |-> ""]

\* no OverleafClient method is being looked at
NoRequest == [fn |-> ""]
NoSocket == [calls |-> <<>>, connected |-> FALSE, delivered |-> <<>>]
NoResult == [kind |-> "", val |-> <<>>]

\* the preparation steps of main, in the order of lines 52-85
PrepSteps == <<"cookie", "get_project", "get_project_infos", "download_project">>
Prepared == [k \in 1..Len(PrepSteps) |-> [step |-> PrepSteps[k], outcome |-> "ok"]]

\* ---------------------------------------------------------------- helpers
Range(s) == {s[k] : k \in 1..Len(s)}

\* to_name of the direction-run whose from_name is f
ToName(f) == IF f = "remote" THEN "local" ELSE "remote"

\* one entry of the trace: a call made by the direction-run from f
Ev(f, kind, name, res) == [from |-> f, ev |-> kind, name |-> name, res |-> res]

Bool(b) == IF b THEN "true" ELSE "false"

\* the capabilities main hands to sync_func
Capabilities == {"create_file_at_to", "delete_file_at_to", "create_file_at_from"}

\* ------------------------------------------------------- olignore_keep_list
\* fnmatch.fnmatch(name, pat) for patterns built from literals, "*" and "?":
\* the pattern has to match the whole name; "*" and "?" also match "/".
RECURSIVE fnmatch(_, _)
fnmatch(name, pat) ==
    IF pat = <<>> THEN name = <<>>
    ELSE IF Head(pat) = "*"
         THEN fnmatch(name, Tail(pat))
              \/ (name # <<>> /\ fnmatch(Tail(name), pat))
    ELSE IF Head(pat) = "?"
         THEN name # <<>> /\ fnmatch(Tail(name), Tail(pat))
    ELSE name # <<>> /\ Head(name) = Head(pat) /\ fnmatch(Tail(name), Tail(pat))

\* glob.glob('**', recursive=True): every file and every directory below the
\* working directory no component of which starts with a dot, a directory
\* before what it holds.  A directory is there when a file below it is.
AllPaths == << <<"a">>, <<"d">>, <<"d", "/", "c">>, <<".", "h">> >>
IsHidden(name) ==
    \E k \in 1..Len(name) : name[k] = "." /\ (k = 1 \/ name[k - 1] = "/")
isfile(dir, p) == p \in DOMAIN dir /\ dir[p].exists
isdir(dir, p) ==
    \E n \in DOMAIN dir :
        /\ dir[n].exists
        /\ Len(p) < Len(n)
        /\ n[Len(p) + 1] = "/"
        /\ SubSeq(n, 1, Len(p)) = p
glob(dir) ==
    SelectSeq(AllPaths, LAMBDA p : (isfile(dir, p) \/ isdir(dir, p)) /\ ~IsHidden(p))

\* the files among them, in the same order
glob_files(dir) == SelectSeq(glob(dir), LAMBDA p : ~isdir(dir, p))

\* Path(item).as_posix() where os.sep is "/": a repeated and a trailing
\* separator are dropped
RECURSIVE as_posix(_)
as_posix(item) ==
    IF item = <<>> THEN <<>>
    ELSE IF Head(item) = "/" /\ (Len(item) = 1 \/ item[2] = "/")
         THEN as_posix(Tail(item))
    ELSE <<Head(item)>> \o as_posix(Tail(item))

\* open(olignore_path, 'r') raises
OpenRaises(ign) == ign.exists /\ ~ign.readable

\* mutant: an item is dropped only when every pattern matches it
olignore_keep_list_all_match(dir, ign) ==
    LET files == glob(dir)
        keep_list ==
            IF ~ign.exists THEN files
            ELSE SelectSeq(files,
                    LAMBDA n : ~(\A k \in 1..Len(ign.lines) : fnmatch(n, ign.lines[k])))
        kept == SelectSeq(keep_list, LAMBDA p : ~isdir(dir, p))
    IN  [k \in 1..Len(kept) |-> as_posix(kept[k])]

\* olignore_keep_list(olignore_path) on the local directory dir, when open()
\* does not raise
olignore_keep_list(dir, ign) ==
    LET files == glob(dir)
        keep_list ==
            IF ~ign.exists THEN files
            ELSE SelectSeq(files,
                    LAMBDA n : ~(\E k \in 1..Len(ign.lines) : fnmatch(n, ign.lines[k])))
        kept == SelectSeq(keep_list, LAMBDA p : ~isdir(dir, p))
    IN  [k \in 1..Len(kept) |-> as_posix(kept[k])]

\* ------------------------------------------------------------ file effects
\* mutant: the file is created or touched, the bytes are not written
write_file_empty(dir, name, content) ==
    [dir EXCEPT ![name] = [exists |-> TRUE, content |-> NoFile, mtime |-> Now]]

\* write_file(path, content): (over)writes the local file
write_file(dir, name, content) ==
    [dir EXCEPT ![name] = [exists |-> TRUE, content |-> content, mtime |-> Now]]

\* delete_file(path): removes the local file
delete_file(dir, name) == [dir EXCEPT ![name] = NoLocalFile]

\* mutant: the upload is accepted but the project keeps what it had
upload_file_dropped(proj, name, content) == proj

\* OverleafClient.upload_file: the remote project gets the local file's bytes
upload_file(proj, name, content) == [proj EXCEPT ![name] = content]

\* OverleafClient.delete_file: looks the name up among rootFolder[0]['docs'];
\* next() raises StopIteration for a name that is no document of the root folder
InRootDocs(name) == \A k \in 1..Len(name) : name[k] # "/"
remote_delete_file(proj, name) == [proj EXCEPT ![name] = NoFile]

\* --------------------------------------------------- main: the two call sites
\* main: sync = not (local or remote)
sync(l, r) == ~(l \/ r)

\* the predicates main hands to sync_func, per direction
from_exists_in_to(f, name) ==
    IF f = "remote" THEN fs[name].exists        \* os.path.isfile(name)
    ELSE name \in Range(zip_names)              \* name in zip_file.namelist()

from_equal_to_to(f, name) == fs[name].content = zip_data[name]

\* mutant: equal time stamps count as newer
from_newer_than_to_or_equal(f, name) ==
    IF f = "remote" THEN lastUpdated >= fs[name].mtime
    ELSE fs[name].mtime >= lastUpdated

from_newer_than_to(f, name) ==
    IF f = "remote" THEN lastUpdated > fs[name].mtime
    ELSE fs[name].mtime > lastUpdated

\* mutant: deletions are looked for in a bidirectional sync only
deleted_files_remote_if_sync ==
    SelectSeq(olignore_keep_list(fs, olignore),
              LAMBDA n : n \notin Range(zip_names) /\ sync(local, remote))

\* deleted_files of the remote -> local call (line 97)
deleted_files_remote ==
    SelectSeq(olignore_keep_list(fs, olignore),
              LAMBDA n : n \notin Range(zip_names) /\ ~sync(local, remote))

\* mutant: the test on sync is missing
deleted_files_local_always ==
    SelectSeq(zip_names,
              LAMBDA n : n \notin Range(olignore_keep_list(fs, olignore)))

\* deleted_files of the local -> remote call (line 112)
deleted_files_local ==
    SelectSeq(zip_names,
              LAMBDA n : n \notin Range(olignore_keep_list(fs, olignore))
                         /\ ~sync(local, remote))

\* the capabilities main hands to sync_func: the state [fs, project] after the call
create_file_at_to(f, name) ==
    IF f = "remote"
    THEN [fs |-> write_file(fs, name, zip_data[name]), project |-> project]
    ELSE [fs |-> fs, project |-> upload_file(project, name, fs[name].content)]

delete_file_at_to(f, name) ==
    IF f = "remote"
    THEN [fs |-> delete_file(fs, name), project |-> project]
    ELSE [fs |-> fs, project |-> remote_delete_file(project, name)]

create_file_at_from(f, name) ==
    IF f = "remote"
    THEN [fs |-> fs, project |-> upload_file(project, name, fs[name].content)]
    ELSE [fs |-> write_file(fs, name, zip_data[name]), project |-> project]

\* the outcomes a capability call can have: any call can raise (I/O, network);
\* deleting a remote file that is no root document always raises
Outcomes(f, kind, name) ==
    IF kind = "delete_file_at_to" /\ f = "local" /\ ~InRootDocs(name)
    THEN {"raise"}
    ELSE {"ok", "raise"}

\* ------------------------------------------------------------------ sync_func
\* The first for-loop's body (lines 260-272) for one name.  eq_out and nw_out
\* say whether from_equal_to_to / from_newer_than_to raise when called, and
\* answer is what the human answers if click.confirm is reached.  The result
\* is the list the name is appended to ("raised": an exception leaves
\* sync_func) and the calls made, in order.
ExistsCall(f, name) ==
    Ev(f, "from_exists_in_to", name, Bool(from_exists_in_to(f, name)))
EqualCall(f, name, eq_out) ==
    Ev(f, "from_equal_to_to", name,
       IF eq_out = "raise" THEN "raise" ELSE Bool(from_equal_to_to(f, name)))
NewerCall(f, name, nw_out) ==
    Ev(f, "from_newer_than_to", name,
       IF nw_out = "raise" THEN "raise" ELSE Bool(from_newer_than_to(f, name)))
ConfirmCall(f, name, answer) == Ev(f, "confirm", name, Bool(answer))

\* mutant: from_newer_than_to is consulted before from_equal_to_to
classify_existing_newer_first(f, name, eq_out, nw_out, answer) ==
    LET e == <<ExistsCall(f, name), NewerCall(f, name, nw_out),
               EqualCall(f, name, eq_out)>>
    IN
    IF nw_out = "raise" \/ eq_out = "raise" THEN [list |-> "raised", calls |-> e]
    ELSE IF from_equal_to_to(f, name) THEN [list |-> "synced_list", calls |-> e]
    ELSE IF from_newer_than_to(f, name) THEN [list |-> "update_list", calls |-> e]
    ELSE [list |-> IF answer THEN "update_list" ELSE "not_sync_list",
          calls |-> Append(e, ConfirmCall(f, name, answer))]

\* mutant: the answer of click.confirm is not looked at
classify_existing_answer_ignored(f, name, eq_out, nw_out, answer) ==
    LET e == <<ExistsCall(f, name), EqualCall(f, name, eq_out)>>
        e3 == Append(e, NewerCall(f, name, nw_out))
    IN
    IF eq_out = "raise" THEN [list |-> "raised", calls |-> e]
    ELSE IF from_equal_to_to(f, name) THEN [list |-> "synced_list", calls |-> e]
    ELSE IF nw_out = "raise" THEN [list |-> "raised", calls |-> e3]
    ELSE IF from_newer_than_to(f, name) THEN [list |-> "update_list", calls |-> e3]
    ELSE [list |-> "update_list",
          calls |-> Append(e3, ConfirmCall(f, name, answer))]

\* mutant: the contents are compared again before the list is chosen
classify_existing_compares_twice(f, name, eq_out, nw_out, answer) ==
    LET e1 == <<ExistsCall(f, name)>>
        e2 == Append(e1, EqualCall(f, name, eq_out))
        e3 == Append(Append(e2, NewerCall(f, name, nw_out)),
                     EqualCall(f, name, eq_out))
        e4 == Append(e3, ConfirmCall(f, name, answer))
    IN
    IF eq_out = "raise" THEN [list |-> "raised", calls |-> e2]
    ELSE IF ~from_equal_to_to(f, name)
         THEN IF nw_out = "raise" THEN [list |-> "raised", calls |-> e3]
              ELSE IF ~from_newer_than_to(f, name)
                   THEN IF ~answer
                        THEN [list |-> "not_sync_list", calls |-> e4]
                        ELSE [list |-> "update_list", calls |-> e4]
                   ELSE [list |-> "update_list", calls |-> e3]
         ELSE [list |-> "synced_list", calls |-> e2]

\* lines 261-270: the name exists in the destination
classify_existing(f, name, eq_out, nw_out, answer) ==
    LET e1 == <<ExistsCall(f, name)>>
        e2 == Append(e1, EqualCall(f, name, eq_out))
        e3 == Append(e2, NewerCall(f, name, nw_out))
        e4 == Append(e3, ConfirmCall(f, name, answer))
    IN
    IF eq_out = "raise" THEN [list |-> "raised", calls |-> e2]
    ELSE IF ~from_equal_to_to(f, name)
         THEN IF nw_out = "raise" THEN [list |-> "raised", calls |-> e3]
              ELSE IF ~from_newer_than_to(f, name)
                   THEN IF ~answer
                        THEN [list |-> "not_sync_list", calls |-> e4]
                        ELSE [list |-> "update_list", calls |-> e4]
                   ELSE [list |-> "update_list", calls |-> e3]
         ELSE [list |-> "synced_list", calls |-> e2]

\* mutant: the existence test is dropped, every name is compared
classify_without_exists(f, name, eq_out, nw_out, answer) ==
    classify_existing(f, name, eq_out, nw_out, answer)

\* lines 260-272
classify(f, name, eq_out, nw_out, answer) ==
    IF from_exists_in_to(f, name)
    THEN classify_existing(f, name, eq_out, nw_out, answer)
    ELSE [list |-> "newly_add_list", calls |-> <<ExistsCall(f, name)>>]

\* mutant: the branches for "d" and "r" are swapped
delete_choice_list_swapped(choice) ==
    IF choice = "d" THEN "restore_list"
    ELSE IF choice = "r" THEN "delete_list"
    ELSE "not_restored_list"

\* The second for-loop's body (lines 275-285): the list the answer of the
\* three-way click.prompt sends the name to
delete_choice_list(choice) ==
    IF choice = "d" THEN "delete_list"
    ELSE IF choice = "r" THEN "restore_list"
    ELSE "not_restored_list"

\* mutant: the deletion candidates are asked about after the NEW loop
NextLoop_prompts_late(p) ==
    CASE p = "classify" -> "new"
      [] p = "new"      -> "deleted"
      [] p = "deleted"  -> "restore"
      [] p = "restore"  -> "update"
      [] p = "update"   -> "delete"
      [] p = "delete"   -> "report"

\* mutant: the UPDATE loop is placed before the RESTORE loop
NextLoop_update_first(p) ==
    CASE p = "classify" -> "deleted"
      [] p = "deleted"  -> "new"
      [] p = "new"      -> "update"
      [] p = "update"   -> "restore"
      [] p = "restore"  -> "delete"
      [] p = "delete"   -> "report"

\* the for-loops of sync_func in program order, and the list each one walks
NextLoop(p) ==
    CASE p = "classify" -> "deleted"
      [] p = "deleted"  -> "new"
      [] p = "new"      -> "restore"
      [] p = "restore"  -> "update"
      [] p = "update"   -> "delete"
      [] p = "delete"   -> "report"

Loops == {"classify", "deleted", "new", "restore", "update", "delete"}

\* mutant: the UPDATE loop also walks the names the human declined
LoopList_declined_too(p) ==
    CASE p = "classify" -> files_from
      [] p = "deleted"  -> deleted_files
      [] p = "new"      -> newly_add_list
      [] p = "restore"  -> restore_list
      [] p = "update"   -> update_list \o not_sync_list
      [] p = "delete"   -> delete_list

LoopList(p) ==
    CASE p = "classify" -> files_from
      [] p = "deleted"  -> deleted_files
      [] p = "new"      -> newly_add_list
      [] p = "restore"  -> restore_list
      [] p = "update"   -> update_list
      [] p = "delete"   -> delete_list

\* the ClickException of each execution loop (lines 296, 307, 318, 329)
ErrorOf(p, f) ==
    CASE p = "new"     -> [group |-> "creating new file(s)", side |-> ToName(f)]
      [] p = "restore" -> [group |-> "creating new file(s)", side |-> f]
      [] p = "update"  -> [group |-> "updating file(s)", side |-> ToName(f)]
      [] p = "delete"  -> [group |-> "creating new file(s)", side |-> ToName(f)]

\* mutant: the exception is swallowed and the loop goes on
OnRaise_continue(p, f) == p

\* mutant: main catches the failure of the first run and goes on to the second
OnRaise_next_run(p, f) == IF f = "remote" THEN "main_local" ELSE "aborted"

\* where control goes when the capability called by loop p of the run from f
\* raises: the except clause raises a ClickException, which leaves sync_func
\* and main
OnRaise(p, f) == "aborted"

\* where main continues when the run from f returns (lines 94 and 109)
AfterRun(f) == IF f = "remote" THEN "main_local" ELSE "done"

\* the capability each execution loop calls
CapabilityOf(p) ==
    CASE p = "new"     -> "create_file_at_to"
      [] p = "restore" -> "create_file_at_from"
      [] p = "update"  -> "create_file_at_to"
      [] p = "delete"  -> "delete_file_at_to"

Effect(f, cap, name) ==
    CASE cap = "create_file_at_to"   -> create_file_at_to(f, name)
      [] cap = "create_file_at_from" -> create_file_at_from(f, name)
      [] cap = "delete_file_at_to"   -> delete_file_at_to(f, name)

\* ------------------------------------------------------------- the listings
\* the decision group each execution loop works on
GroupOf(p) ==
    CASE p = "new"     -> "new"
      [] p = "restore" -> "restore"
      [] p = "update"  -> "update"
      [] p = "delete"  -> "delete"

\* the label of the header line of each listing (lines 288, 299, 310, 321,
\* 332, 337, 342)
LabelOf(g) ==
    CASE g = "new"     -> "[NEW]"
      [] g = "restore" -> "[NEW]"
      [] g = "update"  -> "[UPDATE]"
      [] g = "delete"  -> "[DELETE]"
      [] g = "synced"  -> "[SYNC]"
      [] g = "skipped" -> "[SKIP]"
      [] g = "ignored" -> "[SKIP]"

\* the side the header line of each listing names first
SideOf(g, f) ==
    CASE g = "new"     -> ToName(f)
      [] g = "restore" -> f
      [] g = "update"  -> ToName(f)
      [] g = "delete"  -> ToName(f)
      [] g = "synced"  -> ""
      [] g = "skipped" -> f
      [] g = "ignored" -> ToName(f)

\* lines 248 and 347: the first and the last line of a direction-run
StartLine(f) ==
    [from |-> f, kind |-> "start", group |-> "", label |-> "", side |-> f,
     name |-> <<>>]
EndLine(f) ==
    [from |-> f, kind |-> "end", group |-> "", label |-> "", side |-> f,
     name |-> <<>>]

\* the header line of the listing of group g, and the line of one name in it
Header(f, g) ==
    [from |-> f, kind |-> "header", group |-> g, label |-> LabelOf(g),
     side |-> SideOf(g, f), name |-> <<>>]
FileLine(f, g, n) ==
    [from |-> f, kind |-> "file", group |-> g, label |-> "", side |-> "",
     name |-> n]

FileLines(f, g, list) == [k \in 1..Len(list) |-> FileLine(f, g, list[k])]

\* the header written before loop p starts (lines 287, 298, 309, 320, 331);
\* the two loops over the inputs have none
HeaderLines(f, p) ==
    CASE p = "deleted" -> <<>>
      [] p = "new"     -> <<Header(f, "new")>>
      [] p = "restore" -> <<Header(f, "restore")>>
      [] p = "update"  -> <<Header(f, "update")>>
      [] p = "delete"  -> <<Header(f, "delete")>>
      [] p = "report"  -> <<Header(f, "synced")>>

\* mutant: the listing of the ignored deletion candidates is missing
ReportLines_no_ignored(f) ==
    FileLines(f, "synced", synced_list)
    \o <<Header(f, "skipped")>> \o FileLines(f, "skipped", not_sync_list)
    \o <<EndLine(f)>>

\* lines 333-348: the names that are up to date, the two [SKIP] listings and
\* the closing line
ReportLines(f) ==
    FileLines(f, "synced", synced_list)
    \o <<Header(f, "skipped")>> \o FileLines(f, "skipped", not_sync_list)
    \o <<Header(f, "ignored")>> \o FileLines(f, "ignored", not_restored_list)
    \o <<EndLine(f)>>

EmptyLists ==
    /\ newly_add_list' = <<>> /\ update_list' = <<>> /\ delete_list' = <<>>
    /\ restore_list' = <<>> /\ not_restored_list' = <<>>
    /\ not_sync_list' = <<>> /\ synced_list' = <<>>

\* mutant: a name the human declined is put on update_list as well
AppendTo_declined_twice(l, name) ==
    /\ newly_add_list' = IF l = "newly_add_list" THEN Append(newly_add_list, name)
                         ELSE newly_add_list
    /\ update_list' = IF l \in {"update_list", "not_sync_list"} THEN Append(update_list, name)
                      ELSE update_list
    /\ delete_list' = IF l = "delete_list" THEN Append(delete_list, name)
                      ELSE delete_list
    /\ restore_list' = IF l = "restore_list" THEN Append(restore_list, name)
                       ELSE restore_list
    /\ not_restored_list' = IF l = "not_restored_list"
                            THEN Append(not_restored_list, name)
                            ELSE not_restored_list
    /\ not_sync_list' = IF l = "not_sync_list" THEN Append(not_sync_list, name)
                        ELSE not_sync_list
    /\ synced_list' = IF l = "synced_list" THEN Append(synced_list, name)
                      ELSE synced_list

\* name is appended to the list called l; the other lists stay
AppendTo(l, name) ==
    /\ newly_add_list' = IF l = "newly_add_list" THEN Append(newly_add_list, name)
                         ELSE newly_add_list
    /\ update_list' = IF l = "update_list" THEN Append(update_list, name)
                      ELSE update_list
    /\ delete_list' = IF l = "delete_list" THEN Append(delete_list, name)
                      ELSE delete_list
    /\ restore_list' = IF l = "restore_list" THEN Append(restore_list, name)
                       ELSE restore_list
    /\ not_restored_list' = IF l = "not_restored_list"
                            THEN Append(not_restored_list, name)
                            ELSE not_restored_list
    /\ not_sync_list' = IF l = "not_sync_list" THEN Append(not_sync_list, name)
                        ELSE not_sync_list
    /\ synced_list' = IF l = "synced_list" THEN Append(synced_list, name)
                      ELSE synced_list

\* ------------------------------------------------------------------ actions
\* main, line 94-108: the remote -> local call of sync_func
MainRemote ==
    /\ pc = "main_remote"
    /\ remote \/ sync(local, remote)
    /\ ~OpenRaises(olignore)
    /\ from_name' = "remote"
    /\ files_from' = zip_names
    /\ deleted_files' = deleted_files_remote
    /\ EmptyLists
    /\ pc' = "classify"
    /\ idx' = 1
    /\ output' = Append(output, StartLine("remote"))
    /\ entry' = [fs |-> fs, project |-> project]
    /\ UNCHANGED <<flags, client, prep, invocation, created, acted, fs, snapshot, project, trace, error>>

\* main, lines 97 and 111: olignore_keep_list raises while the arguments of
\* sync_func are evaluated; nothing catches the exception
MainOpenRaises ==
    /\ \/ pc = "main_remote" /\ (remote \/ sync(local, remote))
       \/ pc = "main_local" /\ (local \/ sync(local, remote))
    /\ OpenRaises(olignore)
    /\ pc' = "crashed"
    /\ UNCHANGED <<flags, client, prep, history, fs, snapshot, project, args, idx, lists, trace, output, error>>

\* main, line 94: the remote -> local run is not asked for
MainRemoteSkip ==
    /\ pc = "main_remote"
    /\ ~(remote \/ sync(local, remote))
    /\ pc' = "main_local"
    /\ UNCHANGED <<flags, client, prep, history, fs, snapshot, project, args, idx, lists, trace, output, error>>

\* main, line 109-123: the local -> remote call of sync_func
MainLocal ==
    /\ pc = "main_local"
    /\ local \/ sync(local, remote)
    /\ ~OpenRaises(olignore)
    /\ from_name' = "local"
    /\ files_from' = olignore_keep_list(fs, olignore)
    /\ deleted_files' = deleted_files_local
    /\ EmptyLists
    /\ pc' = "classify"
    /\ idx' = 1
    /\ output' = Append(output, StartLine("local"))
    /\ entry' = [fs |-> fs, project |-> project]
    /\ UNCHANGED <<flags, client, prep, invocation, created, acted, fs, snapshot, project, trace, error>>

\* main, line 109: the local -> remote run is not asked for
MainLocalSkip ==
    /\ pc = "main_local"
    /\ ~(local \/ sync(local, remote))
    /\ pc' = "done"
    /\ UNCHANGED <<flags, client, prep, history, fs, snapshot, project, args, idx, lists, trace, output, error>>

\* what the human types at the prompt of click.confirm and of click.prompt;
\* "" is the bare return key
ConfirmInputs == {"y", "n", ""}
PromptInputs == {"d", "r", "i", ""}

\* mutant: the bare return key means yes
confirm_default_yes(input) == input # "n"

\* click.confirm(text): default=False
confirm(input) == IF input = "" THEN FALSE ELSE input = "y"

\* mutant: the bare return key means delete
prompt_default_delete(input) == IF input = "" THEN "d" ELSE input

\* click.prompt(text, default="i", type=click.Choice(['d', 'r', 'i']))
prompt(input) == IF input = "" THEN "i" ELSE input

\* sync_func, lines 259-272: one iteration of the classification loop, the
\* human typing input if asked
ClassifyWith(input) ==
    /\ pc = "classify"
    /\ idx <= Len(files_from)
    /\ \E eq_out \in {"ok", "raise"}, nw_out \in {"ok", "raise"} :
          LET c == classify(from_name, files_from[idx], eq_out, nw_out, confirm(input)) IN
          /\ trace' = trace \o c.calls
          /\ IF c.list = "raised"
             THEN /\ pc' = "crashed"
                  /\ UNCHANGED <<idx, lists>>
             ELSE /\ AppendTo(c.list, files_from[idx])
                  /\ idx' = idx + 1
                  /\ pc' = pc
    /\ UNCHANGED <<flags, client, prep, history, fs, snapshot, project, args, output, error>>

Classify == \E input \in ConfirmInputs : ClassifyWith(input)

\* sync_func, lines 274-285: one iteration of the deletion loop, the human
\* typing input
AskDeletedWith(input) ==
    /\ pc = "deleted"
    /\ idx <= Len(deleted_files)
    /\ LET choice == prompt(input) IN
          /\ trace' = Append(trace, Ev(from_name, "prompt", deleted_files[idx], choice))
          /\ AppendTo(delete_choice_list(choice), deleted_files[idx])
    /\ idx' = idx + 1
    /\ UNCHANGED <<flags, client, prep, history, fs, snapshot, project, pc, args, output, error>>

AskDeleted == \E input \in PromptInputs : AskDeletedWith(input)

\* the human answers every request with the bare return key
ClassifyDefault == ClassifyWith("")
AskDeletedDefault == AskDeletedWith("")

\* sync_func, lines 289-329: one iteration of an execution loop
Execute ==
    /\ pc \in {"new", "restore", "update", "delete"}
    /\ idx <= Len(LoopList(pc))
    /\ LET name == LoopList(pc)[idx]
           cap == CapabilityOf(pc)
       IN \E out \in Outcomes(from_name, cap, name) :
             /\ output' = Append(output, FileLine(from_name, GroupOf(pc), name))
             /\ trace' = Append(trace, Ev(from_name, cap, name, out))
             /\ IF out = "ok"
                THEN /\ fs' = Effect(from_name, cap, name).fs
                     /\ project' = Effect(from_name, cap, name).project
                     /\ idx' = idx + 1
                     /\ UNCHANGED <<pc, error>>
                ELSE /\ pc' = OnRaise(pc, from_name)
                     /\ error' = ErrorOf(pc, from_name)
                     /\ UNCHANGED <<fs, project, idx>>
    /\ UNCHANGED <<flags, client, prep, history, snapshot, args, lists>>

\* sync_func: a for-loop is exhausted, the next one starts
LoopExit ==
    /\ pc \in Loops
    /\ idx > Len(LoopList(pc))
    /\ pc' = NextLoop(pc)
    /\ idx' = 1
    /\ output' = output \o HeaderLines(from_name, NextLoop(pc))
    /\ UNCHANGED <<flags, client, prep, history, fs, snapshot, project, args, lists, trace, error>>

\* sync_func, lines 331-348: the remaining listings, then the return to main
Return ==
    /\ pc = "report"
    /\ pc' = AfterRun(from_name)
    /\ output' = output \o ReportLines(from_name)
    /\ UNCHANGED <<flags, client, prep, history, fs, snapshot, project, args, idx, lists, trace, error>>

\* ------------------------------------------------------------ specification
\* zip_file.namelist(): distinct names, in the order of the archive
ZipLists == {s \in UNION {[1..n -> Names] : n \in 0..Len(AllNames)} :
                \A i, j \in 1..Len(s) : i < j => s[i] # s[j]}

\* the command line, both sides and the human-independent state when main is
\* entered
Inputs ==
    /\ local \in BOOLEAN
    /\ remote \in BOOLEAN
    /\ olignore \in OlignoreChoices
    /\ fs \in [Names -> LocalFiles \cup {NoLocalFile}]
    /\ zip_names \in ZipLists
    /\ zip_data \in [Names -> Contents \cup {NoFile}]
    /\ \A n \in Names : zip_data[n] # NoFile <=> n \in Range(zip_names)
    /\ project = zip_data
    /\ lastUpdated \in 0..MaxTime
    /\ from_name = ""
    /\ files_from = <<>>
    /\ deleted_files = <<>>
    /\ idx = 1
    /\ newly_add_list = <<>> /\ update_list = <<>> /\ delete_list = <<>>
    /\ restore_list = <<>> /\ not_restored_list = <<>>
    /\ not_sync_list = <<>> /\ synced_list = <<>>
    /\ trace = <<>>
    /\ output = <<>>
    /\ error = NoError
    /\ invocation = 1
    /\ created = [f \in {"remote", "local"} |-> {}]
    /\ acted = {}
    /\ entry = [fs |-> fs, project |-> project]
    /\ request = NoRequest
    /\ socket = NoSocket
    /\ result = NoResult

\* main has come to line 92: the three preparation steps have succeeded
Init ==
    /\ Inputs
    /\ pc = "main_remote"
    /\ prep = Prepared

Next ==
    \/ MainRemote
    \/ MainRemoteSkip
    \/ MainOpenRaises
    \/ MainLocal
    \/ MainLocalSkip
    \/ Classify
    \/ AskDeleted
    \/ Execute
    \/ LoopExit
    \/ Return

Spec == Init /\ [][Next]_vars

\* the program with a human who accepts every default
NextDefault ==
    \/ MainRemote
    \/ MainRemoteSkip
    \/ MainOpenRaises
    \/ MainLocal
    \/ MainLocalSkip
    \/ ClassifyDefault
    \/ AskDeletedDefault
    \/ Execute
    \/ LoopExit
    \/ Return

SpecDefault == Init /\ [][NextDefault]_vars

\* ------------------------------------------------- the preparation of main
\* what an action handed to execute_action can do: return a true value,
\* return a false value (None, an empty dict), or raise.  A ZipFile object is
\* never false.
ActionOutcomes(step) ==
    IF step = "download_project" THEN {"ok", "raise"} ELSE {"ok", "falsy", "raise"}

\* mutant: only an exception counts as failure
execute_action_falsy_passes(outcome) ==
    IF outcome = "raise" THEN "ClickException" ELSE "ok"

\* execute_action, lines 351-367: the action's value is returned when it is
\* true; an exception and a false value both end in click.ClickException
execute_action(outcome) ==
    IF outcome = "ok" THEN "ok" ELSE "ClickException"

\* fail_message of each call of execute_action (lines 70, 77, 85)
FailMessage(step) ==
    CASE step = "get_project" -> "Project could not be queried."
      [] step = "get_project_infos" -> "Project details could not be queried."
      [] step = "download_project" -> "Project could not be downloaded."

\* where main goes on after each step
AfterStep(step) ==
    CASE step = "cookie" -> "get_project"
      [] step = "get_project" -> "get_project_infos"
      [] step = "get_project_infos" -> "download_project"
      [] step = "download_project" -> "main_remote"

PrepFrame ==
    UNCHANGED <<flags, client, history, fs, snapshot, project, args, idx, lists,
                trace, output>>

\* main, lines 52-59: the cookie file is missing (ClickException), cannot be
\* unpickled (uncaught exception) or is loaded
LoadCookie ==
    /\ pc = "main"
    /\ \E outcome \in {"ok", "missing", "raise"} :
          /\ prep' = Append(prep, [step |-> "cookie", outcome |-> outcome])
          /\ pc' = CASE outcome = "ok" -> AfterStep("cookie")
                      [] outcome = "missing" -> "stopped"
                      [] outcome = "raise" -> "crashed"
          /\ error' = IF outcome = "missing"
                      THEN [group |-> "Persisted Overleaf cookie not found.", side |-> ""]
                      ELSE error
    /\ PrepFrame

\* one call of execute_action in main
PrepStep(step) ==
    /\ pc = step
    /\ \E outcome \in ActionOutcomes(step) :
          /\ prep' = Append(prep, [step |-> step, outcome |-> outcome])
          /\ IF execute_action(outcome) = "ok"
             THEN pc' = AfterStep(step) /\ error' = error
             ELSE pc' = "stopped" /\ error' = [group |-> FailMessage(step), side |-> ""]
    /\ PrepFrame

\* main, lines 66-85
QueryProject == PrepStep("get_project")
QueryProjectInfos == PrepStep("get_project_infos")
DownloadProject == PrepStep("download_project")

\* main is entered with nothing prepared
InitPrep ==
    /\ Inputs
    /\ pc = "main"
    /\ prep = <<>>

NextPrep ==
    \/ LoadCookie
    \/ QueryProject
    \/ QueryProjectInfos
    \/ DownloadProject
    \/ Next

SpecPrep == InitPrep /\ [][NextPrep]_vars

\* ------------------------------------------- the program started a second time
\* the names for which the direction-run from f has created or updated the
\* file on the destination (create_file_at_to returned)
CreatedBy(f) ==
    {n \in Names : \E k \in 1..Len(trace) :
        trace[k] = Ev(f, "create_file_at_to", n, "ok")}

\* the direction-run from f has called a capability
ActedIn(f) ==
    \E k \in 1..Len(trace) : trace[k].from = f /\ trace[k].ev \in Capabilities

\* main, lines 50-93, of a second start of the program with the same flags
\* after the first has ended without failure: the project is downloaded again
\* and both sides are enumerated afresh; nothing else has touched either side
Rerun ==
    /\ pc = "done"
    /\ invocation = 1
    /\ invocation' = 2
    /\ created' = [f \in {"remote", "local"} |-> CreatedBy(f)]
    /\ acted' = {f \in {"remote", "local"} : ActedIn(f)}
    /\ entry' = [fs |-> fs, project |-> project]
    /\ zip_data' = project
    /\ zip_names' \in ZipLists
    /\ Range(zip_names') = {n \in Names : project[n] # NoFile}
    /\ lastUpdated' \in lastUpdated..Now
    /\ pc' = "main_remote"
    /\ from_name' = ""
    /\ files_from' = <<>>
    /\ deleted_files' = <<>>
    /\ idx' = 1
    /\ EmptyLists
    /\ trace' = <<>>
    /\ output' = <<>>
    /\ UNCHANGED <<flags, client, prep, fs, project, error>>

NextTwice ==
    \/ Next
    \/ Rerun

SpecTwice == Init /\ [][NextTwice]_vars

\* ------------------------------------------- olignore_keep_list on its own
\* the local directory may also hold a file whose name starts with a dot
FilterNames == Names \cup {<<".", "h">>}

\* rules files: none, an empty one, literal names, a directory name, patterns
\* with "*" and "?", an empty line, and files that cannot be read
FilterChoices ==
    OlignoreChoices \cup
    {Olignore(<<>>),
     Olignore(<< <<"d">> >>),
     Olignore(<< <<"d", "/", "*">> >>),
     Olignore(<< <<"?">> >>),
     Olignore(<< <<"*">> >>),
     Olignore(<< <<>>, <<"a">> >>),
     Olignore(<< <<".", "*">> >>),
     Unreadable(<<>>)}

InitFilter ==
    /\ local = TRUE
    /\ remote = FALSE
    /\ olignore \in FilterChoices
    /\ fs \in [FilterNames -> LocalFiles \cup {NoLocalFile}]
    /\ zip_names = <<>>
    /\ zip_data = [n \in Names |-> NoFile]
    /\ project = zip_data
    /\ lastUpdated = 0
    /\ pc = "olignore_keep_list"
    /\ from_name = ""
    /\ files_from = <<>>
    /\ deleted_files = <<>>
    /\ idx = 1
    /\ newly_add_list = <<>> /\ update_list = <<>> /\ delete_list = <<>>
    /\ restore_list = <<>> /\ not_restored_list = <<>>
    /\ not_sync_list = <<>> /\ synced_list = <<>>
    /\ trace = <<>>
    /\ output = <<>>
    /\ error = NoError
    /\ invocation = 1
    /\ created = [f \in {"remote", "local"} |-> {}]
    /\ acted = {}
    /\ entry = [fs |-> fs, project |-> project]
    /\ prep = Prepared
    /\ request = NoRequest
    /\ socket = NoSocket
    /\ result = NoResult

\* olignore_keep_list returns; main keeps the result as files_from (line 111)
KeepList ==
    /\ pc = "olignore_keep_list"
    /\ ~OpenRaises(olignore)
    /\ files_from' = olignore_keep_list(fs, olignore)
    /\ pc' = "kept"
    /\ UNCHANGED <<flags, client, prep, history, fs, snapshot, project, from_name, deleted_files,
                   idx, lists, trace, output, error>>

\* line 384: open() raises and nothing catches it
KeepListRaises ==
    /\ pc = "olignore_keep_list"
    /\ OpenRaises(olignore)
    /\ pc' = "crashed"
    /\ UNCHANGED <<flags, client, prep, history, fs, snapshot, project, args, idx, lists, trace,
                   output, error>>

NextFilter ==
    \/ KeepList
    \/ KeepListRaises

SpecFilter == InitFilter /\ [][NextFilter]_vars

\* ----------------------------------------------------------- OverleafClient
\* bound on the length of the project listing
MaxProjects == 3

\* Python values: an int, the text str() makes of it, a bool, None
PyInt(n) == <<"int", n>>
str(v) == <<"str", v[2]>>
PyBool(b) == <<"bool", b>>
PyNone == <<"None", 0>>

Value(v) == [kind |-> "value", val |-> v]
Raise(e) == [kind |-> "raise", val |-> <<"exc", e>>]

\* the status codes a response can carry, and requests.Response.ok
Statuses == {200, 204, 400, 403, 500}
ok(status) == status < 400

\* the body of a response: JSON or not, and its "success" entry if it has one
Bodies == {[json |-> TRUE, success |-> "true"],
           [json |-> TRUE, success |-> "false"],
           [json |-> TRUE, success |-> "None"],
           [json |-> FALSE, success |-> "None"]}

\* json.loads(r.content)
json_loads(body) ==
    IF body.json THEN Value(<<"dict", body.success>>) ELSE Raise("JSONDecodeError")

\* json.loads(r.content)["success"]
json_success(body) ==
    IF ~body.json THEN Raise("JSONDecodeError")
    ELSE IF body.success = "None" THEN Raise("KeyError")
    ELSE Value(PyBool(body.success = "true"))

\* OverleafClient.create_folder, lines 139-145, for the response r
create_folder(status, body) ==
    IF ok(status) THEN json_loads(body)
    ELSE IF PyInt(status) = str(PyInt(400)) THEN Value(PyNone)
    ELSE Raise("HTTPError")

\* OverleafClient.upload_file, lines 209-242: folder is the response to the
\* folder request of line 224 when the name has a folder that the project
\* lacks, upload the response to the upload request of line 240
upload_file_request(need_folder, folder, upload) ==
    LET new_folder == create_folder(folder.status, folder.body) IN
    IF need_folder /\ new_folder.kind = "raise" THEN new_folder
    ELSE IF need_folder /\ new_folder.val = PyNone THEN Raise("TypeError")
    ELSE IF PyInt(upload.status) = str(PyInt(200))
         THEN json_success(upload.body)
         ELSE Value(PyBool(FALSE))

\* OverleafClient.delete_file, lines 254-262: in_docs says whether the name is
\* one of rootFolder[0]['docs']
delete_file_request(in_docs, status) ==
    IF ~in_docs THEN Raise("StopIteration")
    ELSE Value(PyBool(PyInt(status) = str(PyInt(204))))

\* a project of the listing; "None" stands for a key the project lacks
ProjectChoices ==
    {[name |-> nm, archived |-> a, trashed |-> t] :
        nm \in {"A", "B"}, a \in {"true", "false", "None"}, t \in {"true", "false"}}
Listings == UNION {[1..n -> ProjectChoices] : n \in 0..MaxProjects}
WithIds(raw) ==
    [k \in 1..Len(raw) |->
        [id |-> k, name |-> raw[k].name, archived |-> raw[k].archived,
         trashed |-> raw[k].trashed]]

\* more_attrs: None, or a dict given as its set of items
AttrChoices ==
    {{}, {<<"name", "A">>}, {<<"name", "B">>},
     {<<"name", "A">>, <<"archived", "None">>}}

\* bool(v) for the values a project holds
Truthy(v) == v = "true"

\* mutant: trashed projects are let through
filter_projects_trashed_too(json_content, more_attrs) ==
    SelectSeq(json_content,
        LAMBDA p : /\ ~Truthy(p.archived)
                   /\ \A kv \in more_attrs : p[kv[1]] = kv[2])

\* OverleafClient.filter_projects, lines 38-44, as the list of what it yields
filter_projects(json_content, more_attrs) ==
    SelectSeq(json_content,
        LAMBDA p : /\ ~Truthy(p.archived) /\ ~Truthy(p.trashed)
                   /\ \A kv \in more_attrs : p[kv[1]] = kv[2])

\* OverleafClient.get_project, line 105: next(filter_projects(...), None)
get_project(json_content, project_name) ==
    LET found == filter_projects(json_content, {<<"name", project_name>>}) IN
    IF found = <<>> THEN Value(PyNone) ELSE Value(<<"project", found[1]>>)

\* the calls the client is asked to make
Responses == [status : Statuses, body : Bodies]
Requests ==
    {[fn |-> "create_folder", r |-> r] : r \in Responses}
    \cup {[fn |-> "upload_file", need_folder |-> nf, folder |-> rf, r |-> r] :
             nf \in BOOLEAN, rf \in {[status |-> 200, body |-> [json |-> TRUE, success |-> "None"]],
                                      [status |-> 400, body |-> [json |-> FALSE, success |-> "None"]]},
             r \in Responses}
    \cup {[fn |-> "delete_file", in_docs |-> d, r |-> r] : d \in BOOLEAN, r \in Responses}
    \cup {[fn |-> "filter_projects", json_content |-> WithIds(raw), more_attrs |-> ma] :
             raw \in Listings, ma \in AttrChoices}
    \cup {[fn |-> "get_project", json_content |-> WithIds(raw), project_name |-> nm] :
             raw \in Listings, nm \in {"A", "B"}}
    \cup {[fn |-> "get_project_infos", project_id |-> id] : id \in {"p1", "p2"}}

InitClient ==
    /\ request \in Requests
    /\ socket = NoSocket
    /\ result = NoResult
    /\ pc = "call"
    /\ local = FALSE
    /\ remote = FALSE
    /\ olignore = NoOlignore
    /\ fs = [n \in Names |-> NoLocalFile]
    /\ zip_names = <<>>
    /\ zip_data = [n \in Names |-> NoFile]
    /\ project = zip_data
    /\ lastUpdated = 0
    /\ from_name = ""
    /\ files_from = <<>>
    /\ deleted_files = <<>>
    /\ idx = 1
    /\ newly_add_list = <<>> /\ update_list = <<>> /\ delete_list = <<>>
    /\ restore_list = <<>> /\ not_restored_list = <<>>
    /\ not_sync_list = <<>> /\ synced_list = <<>>
    /\ trace = <<>>
    /\ output = <<>>
    /\ error = NoError
    /\ invocation = 1
    /\ created = [f \in {"remote", "local"} |-> {}]
    /\ acted = {}
    /\ entry = [fs |-> fs, project |-> project]
    /\ prep = <<>>

\* everything but the client's own state
program == <<flags, fs, snapshot, project, args, idx, lists, trace, output, error,
             history, prep>>

\* a method that returns or raises at once
Returns(r) ==
    /\ result' = r
    /\ pc' = IF r.kind = "raise" THEN "raised" ELSE "returned"
    /\ UNCHANGED <<program, request, socket>>

CreateFolder ==
    /\ pc = "call" /\ request.fn = "create_folder"
    /\ Returns(create_folder(request.r.status, request.r.body))

UploadFile ==
    /\ pc = "call" /\ request.fn = "upload_file"
    /\ Returns(upload_file_request(request.need_folder, request.folder, request.r))

DeleteFile ==
    /\ pc = "call" /\ request.fn = "delete_file"
    /\ Returns(delete_file_request(request.in_docs, request.r.status))

FilterProjects ==
    /\ pc = "call" /\ request.fn = "filter_projects"
    /\ Returns(Value(<<"list", filter_projects(request.json_content, request.more_attrs)>>))

GetProject ==
    /\ pc = "call" /\ request.fn = "get_project"
    /\ Returns(get_project(request.json_content, request.project_name))

\* OverleafClient.get_project_infos, lines 156-190, one call on the socket
\* at a time.  The values the server can hand to the joinProject callback:
Infos == {"infos1", "infos2"}

SocketCall(call, arg) == [call |-> call, arg |-> arg]

\* mutant: the second wait_for_callbacks is left out
AfterCall_one_wait(p) ==
    CASE p = "call"      -> "on"
      [] p = "on"        -> "wait_connect"
      [] p = "wait_connect" -> "emit"
      [] p = "emit"      -> "connected"
      [] p = "wait_join" -> "connected"
      [] p = "connected" -> "return"

\* the statement that follows each statement of lines 172-190
AfterCall(p) ==
    CASE p = "call"      -> "on"
      [] p = "on"        -> "wait_connect"
      [] p = "wait_connect" -> "emit"
      [] p = "emit"      -> "wait_join"
      [] p = "wait_join" -> "connected"
      [] p = "connected" -> "return"

\* a call on the socket raises (the connection is refused or lost)
SocketRaises ==
    /\ request.fn = "get_project_infos"
    /\ pc \in {"call", "wait_connect", "emit", "wait_join"}
    /\ result' = Raise("ConnectionError")
    /\ pc' = "raised"
    /\ UNCHANGED <<program, request, socket>>

\* line 172: SocketIO(BASE_URL, params, headers)
SocketOpen ==
    /\ pc = "call" /\ request.fn = "get_project_infos"
    /\ socket' = [calls |-> <<SocketCall("SocketIO", "")>>, connected |-> TRUE,
                  delivered |-> <<>>]
    /\ pc' = AfterCall(pc)
    /\ UNCHANGED <<program, request, result>>

\* line 179: socket_io.on('connect', lambda: None)
SocketOn ==
    /\ pc = "on"
    /\ socket' = [socket EXCEPT !.calls = Append(@, SocketCall("on", "connect"))]
    /\ pc' = AfterCall(pc)
    /\ UNCHANGED <<program, request, result>>

\* lines 180 and 184: socket_io.wait_for_callbacks(); while it waits the
\* server may drop the connection, and once joinProject has been emitted it
\* may answer, which calls set_project_infos
SocketWait ==
    /\ pc \in {"wait_connect", "wait_join"}
    /\ \E still \in BOOLEAN, answers \in {<<>>} \cup {<<v>> : v \in Infos} :
          /\ pc = "wait_connect" => answers = <<>>
          /\ socket' = [calls |-> Append(socket.calls, SocketCall("wait_for_callbacks", "")),
                        connected |-> socket.connected /\ still,
                        delivered |-> socket.delivered \o answers]
    /\ pc' = AfterCall(pc)
    /\ UNCHANGED <<program, request, result>>

\* line 183: socket_io.emit('joinProject', {'project_id': project_id}, set_project_infos)
SocketEmit ==
    /\ pc = "emit"
    /\ socket' = [socket EXCEPT !.calls = Append(@, SocketCall("emit", request.project_id))]
    /\ pc' = AfterCall(pc)
    /\ UNCHANGED <<program, request, result>>

\* lines 187-188: if socket_io.connected: socket_io.disconnect()
SocketDisconnect ==
    /\ pc = "connected"
    /\ socket' = IF socket.connected
                 THEN [socket EXCEPT !.calls = Append(@, SocketCall("disconnect", "")),
                                     !.connected = FALSE]
                 ELSE socket
    /\ pc' = AfterCall(pc)
    /\ UNCHANGED <<program, request, result>>

\* line 190: return project_infos
InfosReturn ==
    /\ pc = "return"
    /\ result' = IF socket.delivered = <<>> THEN Value(PyNone)
                 ELSE Value(<<"infos", socket.delivered[Len(socket.delivered)]>>)
    /\ pc' = "returned"
    /\ UNCHANGED <<program, request, socket>>

NextClient ==
    \/ CreateFolder
    \/ UploadFile
    \/ DeleteFile
    \/ FilterProjects
    \/ GetProject
    \/ SocketOpen
    \/ SocketOn
    \/ SocketWait
    \/ SocketEmit
    \/ SocketDisconnect
    \/ InfosReturn
    \/ SocketRaises

SpecClient == InitClient /\ [][NextClient]_vars

\* ------------------------------------------------- vocabulary of the claims
ListNames == {"newly_add_list", "update_list", "delete_list", "restore_list",
              "not_restored_list", "not_sync_list", "synced_list"}

ListNamed(l) ==
    CASE l = "newly_add_list"    -> newly_add_list
      [] l = "update_list"       -> update_list
      [] l = "delete_list"       -> delete_list
      [] l = "restore_list"      -> restore_list
      [] l = "not_restored_list" -> not_restored_list
      [] l = "not_sync_list"     -> not_sync_list
      [] l = "synced_list"       -> synced_list

\* the lists of the current direction-run that hold name n
InLists(n) == {l \in ListNames : n \in Range(ListNamed(l))}

\* the positions of the trace at which the run from f made the call kind for n
Calls(f, kind, n) ==
    {k \in 1..Len(trace) :
        trace[k].from = f /\ trace[k].ev = kind /\ trace[k].name = n}

\* the positions of files_from the classification loop has dealt with, while
\* nothing has been executed yet (so the predicates still answer as they did)
Classified ==
    IF pc = "classify" THEN 1..(idx - 1)
    ELSE IF pc = "deleted" THEN 1..Len(files_from)
    ELSE {}

\* C1: a name of files_from that does not exist in the destination is put on
\* newly_add_list (NEW) and on no other list, and neither comparator is
\* consulted for it, whatever the two sides hold.
C1_AbsentIsNew ==
    \A k \in Classified :
        LET n == files_from[k] IN
        ~from_exists_in_to(from_name, n) =>
            /\ InLists(n) = {"newly_add_list"}
            /\ Calls(from_name, "from_equal_to_to", n) = {}
            /\ Calls(from_name, "from_newer_than_to", n) = {}

\* C1 witness: a classified name is absent from the destination although the
\* source copy is older than the destination's time stamp
C1_Witness ==
    /\ pc = "deleted"
    /\ from_name = "local"
    /\ \E k \in Classified :
          /\ ~from_exists_in_to(from_name, files_from[k])
          /\ ~from_newer_than_to(from_name, files_from[k])
          /\ files_from[k] \in Range(newly_add_list)

\* C2: a name that exists in the destination with equal content is put on
\* synced_list (SYNCED) only; from_newer_than_to is not called for it and no
\* prompt (confirm or three-way) is issued for it.
C2_EqualIsSynced ==
    \A k \in Classified :
        LET n == files_from[k] IN
        (from_exists_in_to(from_name, n) /\ from_equal_to_to(from_name, n)) =>
            /\ InLists(n) = {"synced_list"}
            /\ Calls(from_name, "from_newer_than_to", n) = {}
            /\ Calls(from_name, "confirm", n) = {}
            /\ Calls(from_name, "prompt", n) = {}

\* C2 witness: a SYNCED name whose source copy is not newer (so that a call
\* of from_newer_than_to would have led to a prompt)
C2_Witness ==
    /\ pc = "deleted"
    /\ \E k \in Classified :
          /\ from_exists_in_to(from_name, files_from[k])
          /\ from_equal_to_to(from_name, files_from[k])
          /\ ~from_newer_than_to(from_name, files_from[k])
          /\ files_from[k] \in Range(synced_list)

\* C3: a name that exists in the destination with different content: if the
\* source is newer it is put on update_list (UPDATE) without a confirmation;
\* otherwise exactly one confirmation is requested, and the name is put on
\* update_list when the human accepts and on not_sync_list (SKIPPED) when the
\* human declines.
C3_DifferentContent ==
    \A k \in Classified :
        LET n == files_from[k]
            asked == Calls(from_name, "confirm", n)
        IN
        (from_exists_in_to(from_name, n) /\ ~from_equal_to_to(from_name, n)) =>
            IF from_newer_than_to(from_name, n)
            THEN InLists(n) = {"update_list"} /\ asked = {}
            ELSE /\ Cardinality(asked) = 1
                 /\ \A a \in asked :
                       /\ trace[a].res = "true" => InLists(n) = {"update_list"}
                       /\ trace[a].res = "false" => InLists(n) = {"not_sync_list"}

\* C3 witness: one name updated because it is newer, one skipped because the
\* human declined to overwrite with the older version
C3_Witness ==
    /\ pc = "deleted"
    /\ \E k1, k2 \in Classified :
          /\ from_exists_in_to(from_name, files_from[k1])
          /\ from_newer_than_to(from_name, files_from[k1])
          /\ files_from[k1] \in Range(update_list)
          /\ ~from_newer_than_to(from_name, files_from[k2])
          /\ files_from[k2] \in Range(not_sync_list)

\* the enumeration main takes of the destination side of the run from f:
\* the kept local files, or the names of the zip
DestinationEnum(f) ==
    IF f = "remote" THEN Range(olignore_keep_list(fs, olignore))
    ELSE Range(zip_names)

\* both for-loops over the inputs are through and nothing has been executed
PlanComplete == pc = "new" /\ idx = 1

NoDeletionProposed ==
    /\ deleted_files = <<>>
    /\ \A k \in 1..Len(trace) :
          trace[k].ev \notin {"prompt", "delete_file_at_to", "create_file_at_from"}

C6_SourceSideUntouched ==
    /\ (remote /\ ~local) =>
          /\ project = zip_data
          /\ \A k \in 1..Len(trace) :
                ~(trace[k].from = "remote" /\ trace[k].ev = "create_file_at_from")
    /\ (local /\ ~remote) =>
          \A k \in 1..Len(trace) :
             ~(trace[k].from = "local" /\ trace[k].ev = "create_file_at_from")

\* the direction-run from from_name has gone through all its loops
RunFinished == pc \in {"report", "main_local", "done"}

\* C7: the answer to the three-way prompt for a deletion candidate decides
\* what is called for that name: "d" one delete_file_at_to and no
\* create_file_at_from, "r" one create_file_at_from and no delete_file_at_to,
\* "i" neither.  The one call has been made when the run ends without a
\* failure; before that, and in an aborted run, there is at most one.
C7_ChoiceDecidesEffect ==
    \A k \in 1..Len(trace) :
        (trace[k].ev = "prompt" /\ trace[k].from = from_name) =>
            LET n == trace[k].name
                dels == Calls(from_name, "delete_file_at_to", n)
                rest == Calls(from_name, "create_file_at_from", n)
            IN
            /\ Calls(from_name, "prompt", n) = {k}
            /\ trace[k].res = "d" =>
                  /\ rest = {}
                  /\ Cardinality(dels) <= 1
                  /\ RunFinished => Cardinality(dels) = 1
            /\ trace[k].res = "r" =>
                  /\ dels = {}
                  /\ Cardinality(rest) <= 1
                  /\ RunFinished => Cardinality(rest) = 1
            /\ trace[k].res = "i" => dels = {} /\ rest = {}

\* C7 witness: a run that ended without failure after one candidate was
\* answered "d" and another "r"
C7_Witness ==
    /\ pc = "report"
    /\ \E k1, k2 \in 1..Len(trace) :
          /\ trace[k1].from = from_name /\ trace[k1].ev = "prompt"
          /\ trace[k1].res = "d"
          /\ trace[k2].from = from_name /\ trace[k2].ev = "prompt"
          /\ trace[k2].res = "r"

\* the capability calls the current direction-run has made, in order
Executed ==
    SelectSeq(trace, LAMBDA e : e.from = from_name /\ e.ev \in Capabilities)

\* the calls the plan of the current direction-run asks for: NEW, RESTORE,
\* UPDATE, DELETE, each group in the order of its list
PlanOf(list, cap) == [k \in 1..Len(list) |-> [name |-> list[k], cap |-> cap]]
Planned ==
    PlanOf(newly_add_list, "create_file_at_to")
    \o PlanOf(restore_list, "create_file_at_from")
    \o PlanOf(update_list, "create_file_at_to")
    \o PlanOf(delete_list, "delete_file_at_to")

\* list holds names of input, in the order of input
InOrderOf(list, input) ==
    list = SelectSeq(input, LAMBDA n : n \in Range(list))

\* C8: the capability calls of a direction-run are, at every moment, an
\* initial part of: the NEW names, then the RESTORE names, then the UPDATE
\* names, then the DELETE names, each group in the order in which the names
\* were put on its list, which is the order of files_from / deleted_files.
\* A run that ends without failure has made all of them.
C8_GroupOrder ==
    /\ Len(Executed) <= Len(Planned)
    /\ \A k \in 1..Len(Executed) :
          /\ Executed[k].name = Planned[k].name
          /\ Executed[k].ev = Planned[k].cap
    /\ RunFinished => Len(Executed) = Len(Planned)
    /\ InOrderOf(newly_add_list, files_from)
    /\ InOrderOf(update_list, files_from)
    /\ InOrderOf(restore_list, deleted_files)
    /\ InOrderOf(delete_list, deleted_files)

\* C8 witness: a run that restored one file and then updated another
C8_Witness ==
    /\ pc = "report"
    /\ restore_list # <<>>
    /\ update_list # <<>>
    /\ Len(Executed) = 2

\* the run from "remote" decided to create or update name n on the local side
RemoteRunActsOn(n) ==
    \/ \E k \in Calls("remote", "from_exists_in_to", n) : trace[k].res = "false"
    \/ \E k \in Calls("remote", "from_newer_than_to", n) : trace[k].res = "true"
    \/ \E k \in Calls("remote", "confirm", n) : trace[k].res = "true"

\* C9: in a bidirectional sync every call of the remote -> local run comes
\* before every call of the local -> remote run, and when the local -> remote
\* run is entered the remote -> local run has classified every name of the
\* zip and has executed its whole plan without a failure.
C9_RemoteRunFirst ==
    /\ \A i, j \in 1..Len(trace) :
          i < j => ~(trace[i].from = "local" /\ trace[j].from = "remote")
    /\ (~local /\ ~remote /\ from_name = "local") =>
          /\ \A k \in 1..Len(trace) :
                trace[k].from = "remote" => trace[k].res # "raise"
          /\ \A n \in Range(zip_names) :
                /\ Calls("remote", "from_exists_in_to", n) # {}
                /\ RemoteRunActsOn(n) =>
                      \E k \in Calls("remote", "create_file_at_to", n) :
                          trace[k].res = "ok"

\* C9 witness: a bidirectional sync in which both runs have executed
\* something
C9_Witness ==
    /\ ~local /\ ~remote
    /\ pc = "done"
    /\ \E i, j \in 1..Len(trace) :
          /\ trace[i].from = "remote" /\ trace[i].ev \in Capabilities
          /\ trace[j].from = "local" /\ trace[j].ev \in Capabilities

\* the effect of the call cap(n) made by the run from f is in place
EffectPresent(f, cap, n) ==
    CASE cap = "create_file_at_to" ->
            IF f = "remote"
            THEN fs[n].exists /\ fs[n].content = zip_data[n]
            ELSE project[n] = fs[n].content
      [] cap = "delete_file_at_to" ->
            IF f = "remote" THEN ~fs[n].exists ELSE project[n] = NoFile
      [] cap = "create_file_at_from" ->
            IF f = "remote"
            THEN project[n] = fs[n].content
            ELSE fs[n].exists /\ fs[n].content = zip_data[n]

\* C10: after a capability call has raised, the direction-run makes no
\* further call, and what the calls before it have done stays done.
C10_AbortKeepsEffects ==
    /\ \A k \in 1..Len(trace) :
          (trace[k].ev \in Capabilities /\ trace[k].res = "raise") =>
              /\ \A j \in (k + 1)..Len(trace) : trace[j].from # trace[k].from
              /\ pc = "aborted"
    /\ \A k \in 1..Len(trace) :
          (trace[k].from = from_name /\ trace[k].ev \in Capabilities
           /\ trace[k].res = "ok") =>
              EffectPresent(from_name, trace[k].ev, trace[k].name)

\* C10 witness: a run aborted by its second capability call, the first one
\* having succeeded
C10_Witness ==
    /\ pc = "aborted"
    /\ Len(Executed) = 2
    /\ Executed[1].res = "ok"
    /\ Executed[2].res = "raise"
    /\ EffectPresent(from_name, Executed[1].ev, Executed[1].name)

\* a capability call of the run from f has raised
RunFailed(f) ==
    \E k \in 1..Len(trace) :
        trace[k].from = f /\ trace[k].ev \in Capabilities /\ trace[k].res = "raise"

\* C11 as claimed: in a bidirectional sync in which a capability call of the
\* remote -> local run has raised, the local -> remote run is entered all the
\* same.
C11_SecondRunProceeds ==
    (~local /\ ~remote /\ RunFailed("remote")) => from_name = "local"

\* C11 amended: in a bidirectional sync, a capability call of the
\* remote -> local run that raises ends main: the local -> remote run is not
\* entered, it classifies nothing and executes nothing.
C11_FailureEndsMain ==
    (~local /\ ~remote /\ RunFailed("remote")) =>
        /\ pc = "aborted"
        /\ from_name = "remote"
        /\ \A k \in 1..Len(trace) : trace[k].from # "local"

\* C11 witness: the remote -> local run of a bidirectional sync has failed
\* while the local directory holds a file the zip lacks, which the
\* local -> remote run would have uploaded
C11_Witness ==
    /\ ~local /\ ~remote
    /\ RunFailed("remote")
    /\ Range(olignore_keep_list(fs, olignore)) \ Range(zip_names) # {}

Predicates == {"from_exists_in_to", "from_equal_to_to", "from_newer_than_to"}

\* a predicate call of the current direction-run has raised for name n
PredicateFailed(n) ==
    \E k \in 1..Len(trace) :
        /\ trace[k].from = from_name /\ trace[k].name = n
        /\ trace[k].ev \in Predicates /\ trace[k].res = "raise"

\* C12 as claimed: when a predicate call raises for one name, the
\* direction-run is not aborted, and when the program has stopped every other
\* name of files_from has been classified.
C12_PredicateFailureIsolated ==
    \A n \in Names :
        PredicateFailed(n) =>
            /\ pc \notin {"crashed", "aborted"}
            /\ \A m \in Range(files_from) \ {n} :
                  Calls(from_name, "from_exists_in_to", m) # {}

\* the group whose capability call raised, from the last entry of the trace
FailedGroup ==
    LET e == trace[Len(trace)] IN
    IF e.ev = "delete_file_at_to" THEN "delete"
    ELSE IF e.ev = "create_file_at_from" THEN "restore"
    ELSE IF e.name \in Range(update_list) THEN "update"
    ELSE "new"

\* C13 as claimed: the ClickException names the group that failed and the
\* side it ran on: NEW creating on the destination, RESTORE creating on the
\* source, UPDATE updating on the destination, DELETE deleting on the
\* destination.
C13_ErrorNamesGroup ==
    pc = "aborted" =>
        error = CASE FailedGroup = "new" ->
                       [group |-> "creating new file(s)", side |-> ToName(from_name)]
                  [] FailedGroup = "restore" ->
                       [group |-> "creating new file(s)", side |-> from_name]
                  [] FailedGroup = "update" ->
                       [group |-> "updating file(s)", side |-> ToName(from_name)]
                  [] FailedGroup = "delete" ->
                       [group |-> "deleting file(s)", side |-> ToName(from_name)]

\* ------------------------------------------------------------------ C14
Groups == <<"new", "restore", "update", "delete", "synced", "skipped", "ignored">>

Rank(g) == CHOOSE k \in 1..Len(Groups) : Groups[k] = g

\* the positions in the output of the header of group g in the run from f
HeaderAt(f, g) == {k \in 1..Len(output) : output[k] = Header(f, g)}

\* the names listed under group g in the run from f, in the order written
RECURSIVE ListedFrom(_, _, _)
ListedFrom(f, g, k) ==
    IF k > Len(output) THEN <<>>
    ELSE IF output[k].from = f /\ output[k].kind = "file" /\ output[k].group = g
         THEN <<output[k].name>> \o ListedFrom(f, g, k + 1)
         ELSE ListedFrom(f, g, k + 1)
Listed(f, g) == ListedFrom(f, g, 1)

RunCompleted(f) == \E k \in 1..Len(output) : output[k] = EndLine(f)

\* the list the code keeps for each decision group
GroupList(g) ==
    CASE g = "new"     -> newly_add_list
      [] g = "restore" -> restore_list
      [] g = "update"  -> update_list
      [] g = "delete"  -> delete_list
      [] g = "synced"  -> synced_list
      [] g = "skipped" -> not_sync_list
      [] g = "ignored" -> not_restored_list

\* C14 (as stated): when an execution failure aborts a direction-run, every
\* one of the seven decision groups has still produced its labeled listing.
C14_ListingsEvenOnFailure ==
    pc = "aborted" =>
        \A k \in 1..Len(Groups) : HeaderAt(from_name, Groups[k]) # {}

\* C14 (amended): a direction-run that returns has written the seven labeled
\* listings, in the fixed order, each holding exactly the names of its group;
\* a direction-run aborted by an execution failure has written the listings
\* of the groups up to the failing one, the failing name included, and none
\* of the later groups and no closing line.
C14_ListingsUpToFailure ==
    /\ (RunCompleted(from_name) /\ from_name # "") =>
          /\ \A k \in 1..Len(Groups) :
                /\ Cardinality(HeaderAt(from_name, Groups[k])) = 1
                /\ Listed(from_name, Groups[k]) = GroupList(Groups[k])
          /\ \A j, k \in 1..Len(Groups) :
                j < k =>
                    \A a \in HeaderAt(from_name, Groups[j]) :
                        \A b \in HeaderAt(from_name, Groups[k]) : a < b
    /\ pc = "aborted" =>
          /\ ~RunCompleted(from_name)
          /\ \A k \in 1..Len(Groups) :
                HeaderAt(from_name, Groups[k]) # {} <=> k <= Rank(FailedGroup)
          /\ \A k \in 1..Len(Groups) :
                k > Rank(FailedGroup) => Listed(from_name, Groups[k]) = <<>>
          /\ Listed(from_name, FailedGroup) # <<>>
          /\ Listed(from_name, FailedGroup)[Len(Listed(from_name, FailedGroup))]
                = trace[Len(trace)].name

\* a failure in the second direction-run after the first one has returned
\* with a name in its [SKIP] listing
C14_Witness ==
    /\ pc = "aborted"
    /\ from_name = "local"
    /\ RunCompleted("remote")
    /\ Listed("remote", "skipped") # <<>>
    /\ FailedGroup \in {"new", "update"}

\* ------------------------------------------------------------------ C15
\* nothing has touched either side between the two runs from f: the
\* direction-run of the other direction, which main runs in between when it
\* is asked for, has called no capability
Undisturbed(f) ==
    IF f = "remote" THEN "local" \notin acted ELSE ~ActedIn("remote")

RECURSIVE Matches(_, _)
Matches(n, pat) ==
    \/ pat = <<>> /\ n = <<>>
    \/ pat # <<>> /\ Head(pat) = "*" /\
          \E k \in 0..Len(n) : Matches(SubSeq(n, k + 1, Len(n)), Tail(pat))
    \/ pat # <<>> /\ Head(pat) # "*" /\ n # <<>> /\ Head(pat) \in {"?", Head(n)}
          /\ Matches(Tail(n), Tail(pat))

\* the rules of the file at olignore_path
Rules == IF olignore.exists THEN Range(olignore.lines) ELSE {}

\* position of path p in the enumeration of the local files
EnumPos(p) == CHOOSE k \in 1..Len(glob_files(fs)) : glob_files(fs)[k] = p

\* C16: the result of olignore_keep_list holds exactly the enumerated file
\* paths that no rule matches, each once and in enumeration order; it is a
\* subset of the enumeration, and with no rules file or an empty one it is
\* the whole enumeration.
C16_KeepsUnmatched ==
    pc = "kept" =>
        /\ Range(files_from) \subseteq Range(glob_files(fs))
        /\ \A p \in Range(glob_files(fs)) :
              p \in Range(files_from) <=> ~(\E r \in Rules : Matches(p, r))
        /\ \A i, j \in 1..Len(files_from) :
              i < j => EnumPos(files_from[i]) < EnumPos(files_from[j])
        /\ Rules = {} => files_from = glob_files(fs)

\* a directory is matched by a rule, the file in it is kept and another file
\* is dropped
C16_Witness ==
    /\ pc = "kept"
    /\ \E r \in Rules : Matches(<<"d">>, r)
    /\ <<"d", "/", "c">> \in Range(files_from)
    /\ Range(glob_files(fs)) \ Range(files_from) # {}

\* ------------------------------------------------------------------ C17
\* C17 as claimed: olignore_keep_list never raises; when the rules file is
\* there but cannot be read, it returns the whole enumeration.
C17_UnreadableIsNoRules ==
    (olignore.exists /\ ~olignore.readable /\ pc # "olignore_keep_list") =>
        /\ pc = "kept"
        /\ files_from = glob_files(fs)

\* ------------------------------------------------------------------ C18
\* the current direction-run has classified n and not yet acted on it, both
\* sides hold n with different contents, and the local file's modification
\* time is the project's lastUpdated
EqualTimes(n) ==
    /\ from_name # ""
    /\ n \in Range(files_from)
    /\ InLists(n) # {}
    /\ \A c \in Capabilities : Calls(from_name, c, n) = {}
    /\ fs[n].exists /\ n \in Range(zip_names)
    /\ fs[n].content # zip_data[n]
    /\ fs[n].mtime = lastUpdated

\* C18: with equal time stamps and different contents, from_newer_than_to
\* answers false in the remote -> local run as well as in the local -> remote
\* run; the human is asked, and the name is on update_list only if the
\* answer was yes, otherwise it is on not_sync_list.
C18_EqualIsNotNewer ==
    \A n \in Names :
        EqualTimes(n) =>
            /\ \A k \in Calls(from_name, "from_newer_than_to", n) :
                  trace[k].res = "false"
            /\ Calls(from_name, "from_newer_than_to", n) # {}
            /\ \E k \in Calls(from_name, "confirm", n) :
                  InLists(n) = IF trace[k].res = "true" THEN {"update_list"}
                               ELSE {"not_sync_list"}

\* the remote -> local run has asked about a file and was told no; the
\* local -> remote run asks about the same file, the time stamps being equal
C18_Witness ==
    \E n \in Names :
        /\ from_name = "local"
        /\ EqualTimes(n)
        /\ \E k \in Calls("remote", "confirm", n) : trace[k].res = "false"
        /\ \E k \in Calls("remote", "from_newer_than_to", n) : trace[k].res = "false"
        /\ n \in Range(update_list)

\* ------------------------------------------------------------------ C19
NoOpLists == {"synced_list", "not_sync_list", "not_restored_list"}

\* C19: for a name the current direction-run has put on synced_list,
\* not_sync_list or not_restored_list, the run calls none of
\* create_file_at_to, delete_file_at_to and create_file_at_from, and both
\* sides hold for that name what they held when the run started.
C19_NoOpDecisions ==
    \A n \in Names :
        InLists(n) \cap NoOpLists # {} =>
            /\ \A c \in Capabilities : Calls(from_name, c, n) = {}
            /\ fs[n] = entry.fs[n]
            /\ project[n] = entry.project[n]

\* the second direction-run has returned with a declined name, after having
\* called a capability for another name, the first run having changed files
C19_Witness ==
    /\ from_name = "local"
    /\ RunCompleted("local")
    /\ ActedIn("remote")
    /\ Executed # <<>>
    /\ not_sync_list # <<>>

\* ------------------------------------------------------------------ C20
SourceLists == {"newly_add_list", "update_list", "synced_list", "not_sync_list"}
CandidateLists == {"delete_list", "restore_list", "not_restored_list"}

\* how often name n occurs in sequence s
Occurrences(s, n) == Cardinality({k \in 1..Len(s) : s[k] = n})

\* C20: when both classification loops are through, every name of files_from
\* is on exactly one of newly_add_list, update_list, synced_list and
\* not_sync_list, every name of deleted_files is on exactly one of
\* delete_list, restore_list and not_restored_list, each once, and the lists
\* hold no other name.
C20_OneDecisionPerName ==
    PlanComplete =>
        /\ \A n \in Range(files_from) :
              /\ Cardinality(InLists(n)) = 1
              /\ InLists(n) \subseteq SourceLists
        /\ \A n \in Range(deleted_files) :
              /\ Cardinality(InLists(n)) = 1
              /\ InLists(n) \subseteq CandidateLists
        /\ \A n \in Names : \A l \in ListNames :
              Occurrences(ListNamed(l), n) <= 1
        /\ \A n \in Names \ (Range(files_from) \cup Range(deleted_files)) :
              InLists(n) = {}

\* a plan with a declined name and a deletion candidate
C20_Witness ==
    /\ PlanComplete
    /\ not_sync_list # <<>>
    /\ deleted_files # <<>>

\* ------------------------------------------------------------------ C21
\* C21: in one direction-run each of from_exists_in_to, from_equal_to_to and
\* from_newer_than_to is called at most once for a name of files_from, and
\* for no other name.
C21_PredicateOncePerName ==
    \A f \in {"remote", "local"} : \A n \in Names : \A p \in Predicates :
        /\ Cardinality(Calls(f, p, n)) <= 1
        /\ (f = from_name /\ n \notin Range(files_from)) => Calls(f, p, n) = {}

\* both direction-runs have called all three predicates for the same name
C21_Witness ==
    \E n \in Names : \A f \in {"remote", "local"} : \A p \in Predicates :
        Calls(f, p, n) # {}

\* ------------------------------------------------------------------ C22
\* C22: when the human answers every request with its default, a file that
\* differs and is not newer on the source side is put on not_sync_list and
\* create_file_at_to is not called for it; every name of deleted_files is put
\* on not_restored_list, delete_list and restore_list stay empty, and neither
\* delete_file_at_to nor create_file_at_from is called.
C22_DefaultsDeclineAndIgnore ==
    /\ \A k \in 1..Len(trace) :
          /\ trace[k].ev = "confirm" => trace[k].res = "false"
          /\ trace[k].ev = "prompt" => trace[k].res = "i"
          /\ trace[k].ev \notin {"delete_file_at_to", "create_file_at_from"}
    /\ delete_list = <<>> /\ restore_list = <<>>
    /\ \A n \in Names :
          Calls(from_name, "confirm", n) # {} =>
              /\ InLists(n) = {"not_sync_list"}
              /\ Calls(from_name, "create_file_at_to", n) = {}
              /\ fs[n] = entry.fs[n] /\ project[n] = entry.project[n]
    /\ pc \in {"new", "restore", "update", "delete", "report"} =>
          not_restored_list = deleted_files

\* a direction-run has returned after the human was asked both about an older
\* file and about a deletion candidate
C22_Witness ==
    /\ RunCompleted(from_name)
    /\ not_sync_list # <<>>
    /\ not_restored_list # <<>>
    /\ \E k \in 1..Len(trace) : trace[k].ev = "confirm"
    /\ \E k \in 1..Len(trace) : trace[k].ev = "prompt"

\* ------------------------------------------------------------------ C23
\* C23 as claimed: create_folder returns None and does not raise when the
\* response has status 400, and raises HTTPError for every other status that
\* is no success.
C23_FolderExistsIsNone ==
    (request.fn = "create_folder" /\ pc # "call" /\ ~ok(request.r.status)) =>
        IF request.r.status = 400
        THEN pc = "returned" /\ result = Value(PyNone)
        ELSE pc = "raised" /\ result = Raise("HTTPError")

\* ------------------------------------------------------------------ C24
\* C24 as claimed: upload_file returns a true value when the upload request
\* is answered with status 200 and a body whose "success" is true, and a
\* false value otherwise; delete_file returns True exactly when the delete
\* request is answered with status 204.
C24_ReturnTellsSuccess ==
    /\ (request.fn = "upload_file" /\ pc = "returned") =>
          (result.val = PyBool(TRUE)
              <=> (request.r.status = 200 /\ request.r.body.json
                   /\ request.r.body.success = "true"))
    /\ (request.fn = "delete_file" /\ pc = "returned") =>
          (result.val = PyBool(TRUE) <=> request.r.status = 204)

\* ------------------------------------------------------------------ C25
\* the calls of the handshake up to the second wait, and the disconnect
Handshake ==
    <<SocketCall("SocketIO", ""), SocketCall("on", "connect"),
      SocketCall("wait_for_callbacks", ""), SocketCall("emit", request.project_id),
      SocketCall("wait_for_callbacks", "")>>
Disconnect == SocketCall("disconnect", "")

IsPrefix(a, b) == Len(a) <= Len(b) /\ a = SubSeq(b, 1, Len(a))

Selected(p, attrs) ==
    /\ p.archived # "true" /\ p.trashed # "true"
    /\ \A kv \in attrs : p[kv[1]] = kv[2]

\* C26: filter_projects yields exactly the projects of the listing that are
\* neither archived nor trashed and agree with every entry of more_attrs, in
\* listing order; get_project returns the first active project of that name,
\* and None when there is none.
C26_FilterAndGetProject ==
    /\ (request.fn = "filter_projects" /\ pc # "call") =>
          LET out == result.val[2]
              in_ == request.json_content IN
          /\ pc = "returned"
          /\ \A k \in 1..Len(in_) :
                Selected(in_[k], request.more_attrs)
                    <=> \E j \in 1..Len(out) : out[j] = in_[k]
          /\ \A j \in 1..Len(out) : \E k \in 1..Len(in_) : out[j] = in_[k]
          /\ \A i, j \in 1..Len(out) : i < j => out[i].id < out[j].id
    /\ (request.fn = "get_project" /\ pc # "call") =>
          LET in_ == request.json_content
              hits == {k \in 1..Len(in_) :
                          Selected(in_[k], {<<"name", request.project_name>>})} IN
          /\ pc = "returned"
          /\ hits = {} => result = Value(PyNone)
          /\ hits # {} =>
                result = Value(<<"project", in_[CHOOSE k \in hits : \A h \in hits : k <= h]>>)

\* get_project has skipped a trashed project of the name and returned a later one
C26_Witness ==
    /\ request.fn = "get_project"
    /\ pc = "returned"
    /\ Len(request.json_content) >= 2
    /\ request.json_content[1].name = request.project_name
    /\ request.json_content[1].trashed = "true"
    /\ result.val[1] = "project"
    /\ result.val[2].id > 1

\* ------------------------------------------------------------------ C27
\* the current direction-run has called a capability
ExecutionStarted == ActedIn(from_name)

\* in the current direction-run every predicate call, confirm and prompt
\* comes before every capability call, and when the first capability is
\* called every name of files_from is on a list and every name of
\* deleted_files has been asked about
PlanBeforeExecute ==
    /\ \A i, j \in 1..Len(trace) :
          (/\ trace[i].from = from_name /\ trace[j].from = from_name
           /\ trace[i].ev \in Capabilities /\ trace[j].ev \notin Capabilities)
              => j < i
    /\ ExecutionStarted =>
          /\ \A n \in Range(files_from) : InLists(n) \cap SourceLists # {}
          /\ \A n \in Range(deleted_files) : Calls(from_name, "prompt", n) # {}

\* C27: within a direction-run no capability is called before every name of
\* files_from is classified and every confirm and prompt is answered, and
\* from the first execution loop on no step changes a decision list.
C27_PlanThenExecute ==
    /\ []PlanBeforeExecute
    /\ [][(pc \in {"new", "restore", "update", "delete", "report"})
              => UNCHANGED lists]_vars

\* a capability has been called in a run that had both confirmed and prompted
C27_Witness ==
    /\ ExecutionStarted
    /\ \E k \in 1..Len(trace) : trace[k].from = from_name /\ trace[k].ev = "confirm"
    /\ \E k \in 1..Len(trace) : trace[k].from = from_name /\ trace[k].ev = "prompt"

PrepFailed == \E k \in 1..Len(prep) : prep[k].outcome # "ok"

\* C29: main takes its preparation steps in the order cookie, project lookup,
\* project details, project download; when a step raises or returns a false
\* value, main stops with an error at that step, no direction-run starts, no
\* capability is called, and both sides keep what they held; a direction-run
\* starts only after all steps have succeeded.
C29_GatedOnPreparation ==
    /\ IsPrefix([k \in 1..Len(prep) |-> prep[k].step], PrepSteps)
    /\ PrepFailed =>
          /\ pc \in {"stopped", "crashed"}
          /\ pc = "stopped" => error # NoError
          /\ \A k \in 1..Len(prep) : prep[k].outcome # "ok" => k = Len(prep)
          /\ from_name = "" /\ trace = <<>> /\ output = <<>>
          /\ fs = entry.fs /\ project = entry.project
    /\ (from_name # "" \/ trace # <<>> \/ output # <<>>) => prep = Prepared

\* the project details came back empty after the project was found, while
\* the two sides differ
C29_Witness ==
    /\ pc = "stopped"
    /\ Len(prep) = 3
    /\ prep[3].outcome = "falsy"
    /\ \E n \in Names : fs[n].exists /\ fs[n].content # project[n]

====
